---------------------------- MODULE Spec2Model ----------------------------
(***************************************************************************)
(* Auto Track (VfxPipe/nuke/tools/auto_track.py): the TrackingWorker       *)
(* thread, the host's main thread that executes the calls the worker       *)
(* hands over with nuke.executeInMainThread[WithResult], and cancel().     *)
(*                                                                         *)
(* Two threads.  The worker walks through run(), _process_camera_tracker,  *)
(* _update_solve_recursive and _update_solve; pc is its position.  A call  *)
(* handed to the main thread is appended to mainQueue; MainThread takes    *)
(* the head of the queue and executes it.  executeInMainThread returns to  *)
(* the worker as soon as the call is queued; executeInMainThreadWithResult *)
(* suspends the worker until the main thread has produced the result.      *)
(*                                                                         *)
(* Numbers: maxTrackError and maxError are held in hundredths (the spin    *)
(* boxes have two decimals), so the decay of 0.25 is 25.  The RMSE and     *)
(* controlError are points of a small integer grid; only their order       *)
(* matters to the code.                                                    *)
(***************************************************************************)
EXTENDS Integers, Sequences, FiniteSets, TLC

\* ------------------------------------------------------------------ bounds
MaxNodes == 2
MaxIter == 2
MaxRmse == 2

\* --------------------------------------------------------- program values
Decay == 25

RmseVals == 0..MaxRmse
ControlErrorVals == {1}
ThresholdChoices == { <<3, 400, 400>>, <<1, 10, 25>> }

CameraPrefix == "cam_"

CancelMsg == "Tracking cancelled by user"
SuccessMsg == "Successfully processed"
NodeErrorTitle == "Node Error"
ProcessErrorTitle == "Error processing"

VARIABLES
  params,        \* self.params: nodes, minLen, maxTrackError, maxError, controlError, max_iter
  missing,       \* host: the nodes of the batch that nuke.toNode did not find
  solveRMSE,     \* host: node['solveRMSE'] of the node the worker is at (the
                 \* knob of a node that has been left is never read again)
  cameras,       \* host: nuke.allNodes('Camera3')
  mainQueue,     \* calls handed to the main thread and not yet executed
  hostCalls,     \* the host-API calls executed so far, each with the thread it ran on
  touched,       \* the nodes of the batch on which the worker has triggered a host call
  reply,         \* outcome of the pending executeInMainThreadWithResult
  cancelled,     \* self.cancelled
  pc,            \* position of the worker thread
  idx,           \* run(): index of the node being processed (1-based)
  plate_name,    \* _process_camera_tracker: plate_name
  iteration,     \* _update_solve_recursive: iteration
  minLen,        \* _update_solve_recursive: minLen
  maxTrackError, \* _update_solve_recursive: maxTrackError
  maxError,      \* _update_solve_recursive: maxError
  current_rmse,  \* _update_solve_recursive: current_rmse
  cameras_before,\* _process_camera_tracker: cameras_before
  new_cameras,   \* _process_camera_tracker: new_cameras
  progress,      \* the last progress_update signal emitted
  terminal,      \* the tracking_complete and error_occurred signals emitted
  hist,          \* observations of the run (no influence on the program)
  \* the panel: widgets/auto_track_widget.py and the module level of auto_track.py
  node_table,    \* AutoTrackWidget.node_table: the checkbox of each row
  widget,        \* AutoTrackWidget: is_processing, the buttons, the progress display
  worker_ref,    \* auto_track._worker: the worker last created (0: None)
  workers,       \* the TrackingWorker objects created so far
  signals,       \* worker signals queued for the widget's thread
  \* the bootstrap: nuke/startup/init.py
  initialized,       \* _initialized
  registered_tools,  \* _registered_tools
  menu_entries,      \* the commands added to the VfxPipe menu
  tool_modules,      \* the modules found in nuke/tools, with what importing each does
  startup,           \* position of initialize() and observations of its calls
  \* host detection: utils/host.py
  environment,   \* the host modules that can be imported and the versions they report
  dcc,           \* the argument of getPySideVersion
  result,        \* what the last call returned or raised
  \* the camera of a solve: TrackingWorker._create_camera
  solver,        \* host: the knobs of the CameraTracker node that the camera takes over
  camera,        \* host: the knobs of the camera node that _create_camera returns
  scene,         \* link, the number of views, and what has happened to the two nodes
  \* the progress meter: the percentages of progress_update
  meter          \* the batch, the position of the run and the percentage emitted last

workerVars == << params, missing, solveRMSE, cameras, mainQueue, hostCalls, touched,
                 reply, cancelled, pc, idx, plate_name, iteration, minLen,
                 maxTrackError, maxError, current_rmse, cameras_before, new_cameras,
                 progress, terminal, hist >>
panelVars == << node_table, widget, worker_ref, workers, signals >>
startupVars == << initialized, registered_tools, menu_entries, tool_modules, startup >>
dccVars == << environment, dcc, result >>
sceneVars == << solver, camera, scene >>
meterVars == << meter >>

vars == << workerVars, panelVars, startupVars, dccVars, sceneVars, meterVars >>

\* what the worker thread and cancel() only read or never see
readOnly == << params, panelVars, startupVars, dccVars, sceneVars, meterVars >>

hostVars == << missing, cameras >>
refineVars == << iteration, minLen, maxTrackError, maxError, current_rmse >>
cameraVars == << cameras_before, new_cameras >>
signalVars == << progress, terminal >>

\* ----------------------------------------------------------------- helpers
total_nodes == Len(params.nodes)

Idle == [status |-> "idle", val |-> 0, cams |-> {}]
Waiting == [status |-> "wait", val |-> 0, cams |-> {}]

\* A call as handed to the main thread.
HostOp(node, op, sync, val) ==
  [node |-> node, op |-> op, sync |-> sync, val |-> val, name |-> << >>]

\* line 252: final_name
FinalName(plate) == << params.camera_prefix, plate >>

\* line 253: the call that renames camera_node
RenameOp(node, camera_node, final_name) ==
  [HostOp(node, "setName", FALSE, camera_node) EXCEPT !.name = final_name]

\* The call sites of nuke.executeInMainThreadWithResult and what each runs.
SyncSites ==
  { "plate_name", "track_count", "initial_rmse", "current_rmse", "refFrames",
    "new_rmse", "final_rmse", "cameras_before", "create_camera", "cameras_after" }

SyncOp(site) ==
  CASE site = "plate_name" -> "tcl full_name"
    [] site = "track_count" -> "tracks.getValue"
    [] site \in {"initial_rmse", "current_rmse", "new_rmse", "final_rmse"} -> "solveRMSE.value"
    [] site = "refFrames" -> "trackStart/trackStop.value"
    [] site \in {"cameras_before", "cameras_after"} -> "allNodes"
    [] site = "create_camera" -> "_create_camera"

\* Signals.
ProgressDetail(stage, i, k, detail) ==
  [kind |-> "progress", stage |-> stage, node |-> i, iter |-> k, detail |-> detail]
ProgressEvent(stage, i, k) == ProgressDetail(stage, i, k, << >>)
CompleteEvent(success, msg) == [kind |-> "complete", success |-> success, text |-> msg, node |-> 0]
ErrorEvent(title, i) == [kind |-> "error", success |-> FALSE, text |-> title, node |-> i]
NoProgress == ProgressEvent("none", 0, 0)

EmitProgress(e) == progress' = e /\ UNCHANGED terminal
EmitTerminal(e) == terminal' = terminal \cup {e} /\ UNCHANGED progress

\* ------------------------------------------------------------ observations
Knobs == {"minLengthThreshold", "maxRMSEThreshold", "maxErrorThreshold"}

NoHist ==
  [ cancelObserved |-> FALSE,         \* some `if self.cancelled` has seen the flag
    cancelAt |-> 0,                   \* idx when cancel() set the flag (0: never)
    cancelMid |-> FALSE,              \* cancel() came while a node was being processed
    lastRaise |-> "none",             \* site of the last host call of this node that raised
    plateFailed |-> FALSE,            \* the plate-name query of this node raised
    noCamera |-> FALSE,               \* "No new camera found" has been logged in this run
    lastRun |-> "none",               \* the call of this node the main thread executed last
    pushed |-> [k \in Knobs |-> 0],   \* last value written to each threshold knob
    pushedIter |-> [k \in Knobs |-> 0], \* 1-based iteration of that write (0: none)
    belowSeen |-> FALSE,              \* an RMSE read of this refinement was < controlError
    belowAt |-> 0,                    \* first iteration after which the RMSE read was < controlError
    report |-> "none" ]               \* final status of this refinement

Observed(h) == [h EXCEPT !.cancelObserved = TRUE]
Raised(h, site) ==
  [h EXCEPT !.lastRaise = site, !.plateFailed = @ \/ (site = "plate_name")]
Absorbed(h, site) == IF reply.status = "raise" THEN Raised(h, site) ELSE h
SawRmse(h, r) == [h EXCEPT !.belowSeen = @ \/ (r < params.controlError)]
\* the observations of one node end with the node
NodeOver(h) ==
  [h EXCEPT !.lastRaise = "none", !.plateFailed = FALSE, !.lastRun = "none",
            !.pushed = [k \in Knobs |-> 0],
            !.pushedIter = [k \in Knobs |-> 0], !.belowSeen = FALSE, !.belowAt = 0,
            !.report = "none"]

\* ------------------------------------------------- the other components
\* AutoTrackWidget.__init__ and _build_ui: the panel as constructed
WidgetInit ==
  [ is_processing |-> FALSE,          \* line 48
    track_btn |-> TRUE,               \* line 184: enabled
    cancel_btn |-> FALSE,             \* line 189
    progress_bar |-> 0,               \* line 170
    status_label |-> "Ready to track...",   \* line 164
    dialog |-> "none" ]               \* the last message box shown

\* startup/init.py before any call of initialize()
StartupIdle ==
  [ pc |-> "idle",          \* position inside initialize()
    remaining |-> {},       \* the modules the for loop of line 107 has still to visit
    calls |-> 0,            \* calls of initialize() made so far
    completed |-> 0,        \* calls that ran to line 42
    discoveries |-> 0,      \* runs of discover_and_register_tools
    menu_setups |-> 0,      \* runs of setup_menus
    notice |-> FALSE,       \* the last call printed "Already initialized, skipping..."
    raised |-> FALSE,       \* the last call ended with an exception
    errors |-> {} ]         \* the modules reported by line 125 or 128

\* host.py: no call made yet
NoResult == [call |-> "none", status |-> "none", value |-> 0, name |-> "None"]

\* a Python process with no host module and nothing to report
NoEnvironment ==
  [ modules |-> {},
    nuke |-> [major |-> 0, has_major |-> FALSE, readable |-> FALSE],
    maya |-> [major |-> 0, readable |-> FALSE],
    hou |-> [major |-> 0, readable |-> FALSE] ]

\* the panel, the bootstrap and host detection take no step while a worker
\* runs; their variables are held at one value in the worker's specification
PanelAside ==
  /\ node_table = << >>
  /\ widget = WidgetInit
  /\ worker_ref = 0
  /\ workers = << >>
  /\ signals = << >>

StartupAside ==
  /\ initialized = FALSE
  /\ registered_tools = << >>
  /\ menu_entries = << >>
  /\ tool_modules = << >>
  /\ startup = StartupIdle

DccAside ==
  /\ environment = NoEnvironment
  /\ dcc = "None"
  /\ result = NoResult

\* no camera is looked into
NoScene == [link |-> FALSE, numviews |-> 0, made |-> FALSE, changes |-> 0,
            solver_then |-> << >>]

SceneAside ==
  /\ solver = << >>
  /\ camera = << >>
  /\ scene = NoScene

\* no percentage is looked at
NoMeter == [total_nodes |-> 0, max_iter |-> 0, idx |-> 0, at |-> "done",
            iteration |-> 0, percentage |-> [man |-> << >>, exp |-> 0]]

MeterAside == meter = NoMeter

\* the worker's variables where no worker is modelled
WorkerAside ==
  /\ params = [ nodes |-> << >>, minLen |-> 0, maxTrackError |-> 0, maxError |-> 0,
                controlError |-> 0, max_iter |-> 0, camera_prefix |-> CameraPrefix ]
  /\ missing = {}
  /\ solveRMSE = 0
  /\ cameras = {}
  /\ mainQueue = << >>
  /\ hostCalls = {}
  /\ touched = {}
  /\ reply = Idle
  /\ cancelled = FALSE
  /\ pc = "done"
  /\ idx = 1
  /\ plate_name = "none"
  /\ iteration = 0
  /\ minLen = 0
  /\ maxTrackError = 0
  /\ maxError = 0
  /\ current_rmse = 0
  /\ cameras_before = {}
  /\ new_cameras = {}
  /\ progress = NoProgress
  /\ terminal = {}
  /\ hist = NoHist

\* -------------------------------------------------------------------- Init
\* TrackingWorker.__init__ and the entry of run(): a worker about to process
\* a batch, with thresholds out of `choices`
WorkerStart(choices) ==
  /\ \E n \in 1..MaxNodes, th \in choices,
        ce \in ControlErrorVals, mi \in 0..MaxIter :
       params = [ nodes |-> [i \in 1..n |-> i],
                  minLen |-> th[1], maxTrackError |-> th[2], maxError |-> th[3],
                  controlError |-> ce, max_iter |-> mi,
                  camera_prefix |-> CameraPrefix ]
  /\ missing = {}
  /\ solveRMSE = 0
  /\ cameras = {}
  /\ mainQueue = << >>
  /\ hostCalls = {}
  /\ touched = {}
  /\ reply = Idle
  /\ cancelled = FALSE
  /\ pc = "loop_top"
  /\ idx = 1
  /\ plate_name = "none"
  /\ iteration = 0
  /\ minLen = 0
  /\ maxTrackError = 0
  /\ maxError = 0
  /\ current_rmse = 0
  /\ cameras_before = {}
  /\ new_cameras = {}
  /\ progress = NoProgress
  /\ terminal = {}
  /\ hist = NoHist

Init ==
  /\ WorkerStart(ThresholdChoices)
  /\ PanelAside
  /\ StartupAside
  /\ DccAside
  /\ SceneAside
  /\ MeterAside

\* ------------------------------------------------------- worker primitives
\* return from _process_camera_tracker to the for loop of run(): the locals
\* of the node go out of scope
EndNode(h) ==
  /\ idx' = idx + 1
  /\ pc' = "loop_top"
  /\ plate_name' = "none"
  /\ iteration' = 0
  /\ minLen' = 0
  /\ maxTrackError' = 0
  /\ maxError' = 0
  /\ current_rmse' = 0
  /\ cameras_before' = {}
  /\ new_cameras' = {}
  /\ solveRMSE' = 0
  /\ hist' = NodeOver(h)

\* the worker stays in the node
locals == << plate_name, refineVars, cameraVars >>

\* what belongs to the node the worker is at
nodeVars == << locals, solveRMSE >>

\* Fail with the exception swallowed: the worker stays where it is
Fail_Swallowed(site) ==
  /\ pc' = pc
  /\ hist' = Raised(hist, site)
  /\ UNCHANGED << idx, nodeVars, signalVars >>

\* Fail with `continue` in place of `return`: the for loop goes on
Fail_Continue(site) ==
  /\ EmitTerminal(ErrorEvent(ProcessErrorTitle, idx))
  /\ EndNode(Raised(hist, site))

\* an exception that leaves _process_camera_tracker: run() lines 101-107
Fail(site) ==
  /\ pc' = "done"
  /\ EmitTerminal(ErrorEvent(ProcessErrorTitle, idx))
  /\ hist' = Raised(hist, site)
  /\ UNCHANGED << idx, nodeVars >>

\* nuke.executeInMainThread(call): the call is queued and the worker goes on;
\* a failure in the calling thread leaves _process_camera_tracker.
QueueCall(site, op, val, next, h) ==
  /\ pc = site
  /\ UNCHANGED << readOnly, hostVars, hostCalls, touched, reply, cancelled >>
  /\ \/ /\ mainQueue' = Append(mainQueue, HostOp(idx, op, FALSE, val))
        /\ pc' = next
        /\ hist' = h
        /\ UNCHANGED << idx, nodeVars, signalVars >>
     \/ /\ Fail(site)
        /\ UNCHANGED mainQueue

ExecuteInMainThread(site, op, val, next) == QueueCall(site, op, val, next, hist)

\* nuke.executeInMainThreadWithResult(call), first half: queue the call and wait.
ExecuteInMainThreadWithResult ==
  /\ pc \in SyncSites
  /\ reply.status = "idle"
  /\ mainQueue' = Append(mainQueue, HostOp(idx, SyncOp(pc), TRUE, 0))
  /\ reply' = Waiting
  /\ UNCHANGED << readOnly, hostVars, hostCalls, touched, cancelled, pc, idx,
                  nodeVars, signalVars, hist >>

\* second half: the main thread has answered the call made at `site`
Returned(site) ==
  /\ pc = site
  /\ reply.status \in {"ok", "raise"}
  /\ reply' = Idle
  /\ UNCHANGED << readOnly, hostVars, mainQueue, hostCalls, touched, cancelled >>

\* --------------------------------------------------------- the main thread
MainThread ==
  /\ mainQueue # << >>
  /\ LET call == Head(mainQueue) IN
       /\ mainQueue' = Tail(mainQueue)
       /\ hostCalls' = hostCalls \cup {[op |-> call.op, thread |-> "main"]}
       /\ IF call.op \in {"solveCamera.execute", "doUpdateSolve.execute"}
               /\ call.node = idx
          THEN \E r \in RmseVals : solveRMSE' = r
          ELSE UNCHANGED solveRMSE
       /\ IF call.op = "_create_camera"
          THEN \E made \in BOOLEAN :
                 cameras' = IF made THEN cameras \cup {Cardinality(cameras) + 1} ELSE cameras
          ELSE UNCHANGED cameras
       /\ IF call.sync
          THEN \E st \in {"ok", "raise"} :
                 reply' = [ status |-> st,
                            val |-> IF call.op = "solveRMSE.value" THEN solveRMSE ELSE 0,
                            cams |-> IF call.op = "allNodes" THEN cameras ELSE {} ]
          ELSE UNCHANGED reply
       /\ hist' = IF call.node = idx THEN [hist EXCEPT !.lastRun = call.op] ELSE hist
  /\ UNCHANGED << readOnly, missing, touched, cancelled, pc, idx, plate_name,
                  refineVars, cameraVars, signalVars >>

\* ------------------------------------------------------------- cancel()
\* _on_cancel_tracking calls cancel() only while the worker is running
Cancel ==
  /\ pc # "done"
  /\ ~cancelled
  /\ cancelled' = TRUE
  /\ hist' = [hist EXCEPT !.cancelAt = idx, !.cancelMid = (pc # "loop_top")]
  /\ UNCHANGED << readOnly, hostVars, mainQueue, hostCalls, touched, reply, pc,
                  idx, nodeVars, signalVars >>

\* ------------------------------------------------------------------ run()
\* lines 61-89: one turn of `for idx, node_name in enumerate(nodes)`, up to
\* the first progress signal of the node; lines 109-116 when the list is
\* exhausted.  nuke.toNode and node.Class() are called by the worker itself.
\* RunCancelled with the check left out
RunCancelled_Unchecked == FALSE

\* line 62: the check of the flag at the top of the for loop
RunCancelled == cancelled

\* what nuke.toNode(node_name) can do: return the node, return None, raise
LookupOutcomes == {"found", "missing", "raises"}

\* NodeFound without `if not node`
NodeFound_Unchecked(outcome) == outcome # "raises"

\* lines 75-77: the lookup returned a node
NodeFound(outcome) == outcome = "found"

RunLoop ==
  /\ pc = "loop_top"
  /\ UNCHANGED << readOnly, cameras, mainQueue, reply, cancelled, idx, nodeVars >>
  /\ IF idx > total_nodes
     THEN /\ EmitTerminal(CompleteEvent(TRUE, SuccessMsg))
          /\ pc' = "done"
          /\ UNCHANGED << missing, hostCalls, touched, hist >>
     ELSE IF RunCancelled
     THEN /\ EmitTerminal(CompleteEvent(FALSE, CancelMsg))
          /\ pc' = "done"
          /\ hist' = Observed(hist)
          /\ UNCHANGED << missing, hostCalls, touched >>
     ELSE /\ touched' = touched \cup {idx}
          /\ \E outcome \in LookupOutcomes :
               /\ missing' = IF outcome = "missing" THEN missing \cup {idx} ELSE missing
               /\ hist' = IF outcome = "raises" THEN Raised(hist, "toNode") ELSE hist
               /\ IF NodeFound(outcome)
                  THEN /\ hostCalls' = hostCalls \cup
                             { [op |-> "toNode", thread |-> "worker"],
                               [op |-> "Class", thread |-> "worker"] }
                       /\ EmitProgress(ProgressEvent("prepare", idx, 0))
                       /\ pc' = "showControlPanel"
                  ELSE /\ hostCalls' = hostCalls \cup
                             { [op |-> "toNode", thread |-> "worker"] }
                       /\ EmitTerminal(ErrorEvent(NodeErrorTitle, idx))
                       /\ pc' = "done"

\* ----------------------------------------------- _process_camera_tracker
\* line 136
ShowControlPanel ==
  ExecuteInMainThread("showControlPanel", "showControlPanel", 0, "plate_name")

\* lines 138-157: the plate name (a failure falls back to the node name),
\* the cancellation check and the progress signal of step 1
GetPlateName ==
  /\ Returned("plate_name")
  /\ IF cancelled
     THEN /\ EndNode(Observed(hist))
          /\ UNCHANGED signalVars
     ELSE /\ plate_name' = IF reply.status = "ok" THEN "plate" ELSE "node_name"
          /\ pc' = "trackFeatures"
          /\ EmitProgress(ProgressEvent("track", idx, 0))
          /\ hist' = Absorbed(hist, "plate_name")
          /\ UNCHANGED << idx, refineVars, cameraVars, solveRMSE >>

\* line 162
TrackFeatures ==
  ExecuteInMainThread("trackFeatures", "trackFeatures.execute", 0, "track_count")

\* lines 165-183: the track count (only logged; a failure is logged too),
\* the cancellation check and the progress signal of step 2
GetTrackCount ==
  /\ Returned("track_count")
  /\ IF cancelled
     THEN /\ EndNode(Observed(hist))
          /\ UNCHANGED signalVars
     ELSE /\ pc' = "solveCamera"
          /\ EmitProgress(ProgressEvent("solve", idx, 0))
          /\ hist' = Absorbed(hist, "track_count")
          /\ UNCHANGED << idx, nodeVars >>

\* line 187
SolveCamera ==
  ExecuteInMainThread("solveCamera", "solveCamera.execute", 0, "initial_rmse")

\* InitialThresholds with the decay of the nodes processed before carried over
InitialThresholds_Carried ==
  << params.minLen + (idx - 1), params.maxTrackError - Decay * (idx - 1),
     params.maxError - Decay * (idx - 1) >>

\* lines 350-352: the thresholds a refinement starts from
InitialThresholds == << params.minLen, params.maxTrackError, params.maxError >>

\* lines 190-208 and 349-358: the initial RMSE (only logged; a failure is
\* logged too), the cancellation check, the progress signal of step 3 and the
\* entry of _update_solve_recursive, which copies the thresholds from params
GetInitialRmse ==
  /\ Returned("initial_rmse")
  /\ IF cancelled
     THEN /\ EndNode(Observed(hist))
          /\ UNCHANGED signalVars
     ELSE /\ pc' = "current_rmse"
          /\ EmitProgress(ProgressEvent("refine_start", idx, 0))
          /\ hist' = Absorbed(hist, "initial_rmse")
          /\ minLen' = InitialThresholds[1]
          /\ maxTrackError' = InitialThresholds[2]
          /\ maxError' = InitialThresholds[3]
          /\ iteration' = 0
          /\ UNCHANGED << idx, plate_name, current_rmse, cameraVars, solveRMSE >>

\* ---------------------------------------------- _update_solve_recursive
\* line 360
ReadCurrentRmse ==
  /\ Returned("current_rmse")
  /\ IF reply.status = "raise"
     THEN Fail("current_rmse")
     ELSE /\ current_rmse' = reply.val
          /\ pc' = "while"
          /\ hist' = SawRmse(hist, reply.val)
          /\ UNCHANGED << idx, plate_name, iteration, minLen, maxTrackError,
                          maxError, cameraVars, solveRMSE, signalVars >>

\* LoopCondition without the test of the target
LoopCondition_IgnoresTarget == iteration < params.max_iter

\* LoopCondition with > in place of >=
LoopCondition_Strict == current_rmse > params.controlError /\ iteration < params.max_iter

\* LoopCondition with <= in place of <
LoopCondition_Inclusive == current_rmse >= params.controlError /\ iteration <= params.max_iter

\* the condition of line 362
LoopCondition == current_rmse >= params.controlError /\ iteration < params.max_iter

\* lines 362-365: the loop test and the cancellation check; a cancelled
\* refinement returns to _process_camera_tracker, line 218
WhileTest ==
  /\ pc = "while"
  /\ UNCHANGED << readOnly, hostVars, mainQueue, hostCalls, touched, reply,
                  cancelled, signalVars >>
  /\ IF LoopCondition
     THEN IF cancelled
          THEN /\ pc' = "check_camera"
               /\ hist' = Observed(hist)
               /\ UNCHANGED << idx, nodeVars >>
          ELSE /\ pc' = "set_minLen"
               /\ UNCHANGED << idx, nodeVars, hist >>
     ELSE /\ pc' = "final_rmse"
          /\ UNCHANGED << idx, nodeVars, hist >>

Pushed(h, knob, val) ==
  [h EXCEPT !.pushed[knob] = val, !.pushedIter[knob] = iteration + 1]

\* lines 370-372
SetThresholds ==
  \/ QueueCall("set_minLen", "minLengthThreshold.setValue", minLen, "set_maxTrackError",
               Pushed(hist, "minLengthThreshold", minLen))
  \/ QueueCall("set_maxTrackError", "maxRMSEThreshold.setValue", maxTrackError, "set_maxError",
               Pushed(hist, "maxRMSEThreshold", maxTrackError))
  \/ QueueCall("set_maxError", "maxErrorThreshold.setValue", maxError, "rej_setValue",
               Pushed(hist, "maxErrorThreshold", maxError))

\* DeleteRejectedTracks with the filter executed before its auto-confirm
\* value is set
DeleteRejectedTracks_ExecuteFirst ==
  \/ ExecuteInMainThread("rej_setValue", "deleteRejectedTracks.execute", 0, "rej_execute")
  \/ ExecuteInMainThread("rej_execute", "deleteRejectedTracks.setValue", 0, "inv_setValue")

\* lines 376-380
DeleteRejectedTracks ==
  \/ ExecuteInMainThread("rej_setValue", "deleteRejectedTracks.setValue", 0, "rej_execute")
  \/ ExecuteInMainThread("rej_execute", "deleteRejectedTracks.execute", 0, "inv_setValue")

\* lines 384-388
DeleteInvalidTracks ==
  \/ ExecuteInMainThread("inv_setValue", "deleteInvalidTracks.setValue", 0, "inv_execute")
  \/ ExecuteInMainThread("inv_execute", "deleteInvalidTracks.execute", 0, "refFrames")

\* _update_solve, lines 320-322: the reference frames
GetRefFrames ==
  /\ Returned("refFrames")
  /\ IF reply.status = "raise"
     THEN Fail("refFrames")
     ELSE /\ pc' = "update_frames"
          /\ UNCHANGED << idx, nodeVars, signalVars, hist >>

\* _update_solve, lines 326-336: write the frames, press doUpdateSolve
UpdateSolve ==
  \/ ExecuteInMainThread("update_frames", "selectedFrames.setValueAt", 0, "doUpdateSolve")
  \/ ExecuteInMainThread("doUpdateSolve", "doUpdateSolve.execute", 0, "new_rmse")

\* NextThreshold with a floor at zero
NextThreshold_Clamped(x) == IF x - Decay < 0 THEN 0 ELSE x - Decay

\* lines 416-417: a threshold after one more iteration
NextThreshold(x) == x - Decay

\* IterationDetail with the 0-based iteration
IterationDetail_ZeroBased(new_rmse) ==
  [ iteration |-> iteration, max_iter |-> params.max_iter,
    current_rmse |-> current_rmse, new_rmse |-> new_rmse,
    controlError |-> params.controlError,
    minLen |-> minLen, maxError |-> maxError ]

\* lines 401-406: what the detail text of an iteration is made of
IterationDetail(new_rmse) ==
  [ iteration |-> iteration + 1, max_iter |-> params.max_iter,
    current_rmse |-> current_rmse, new_rmse |-> new_rmse,
    controlError |-> params.controlError,
    minLen |-> minLen, maxError |-> maxError ]

\* lines 394-419: the new RMSE, the progress signal of the iteration and the
\* adjustment of the thresholds for the next iteration
ReadNewRmse ==
  /\ Returned("new_rmse")
  /\ IF reply.status = "raise"
     THEN Fail("new_rmse")
     ELSE /\ EmitProgress(ProgressDetail("iter", idx, iteration, IterationDetail(reply.val)))
          /\ minLen' = minLen + 1
          /\ maxTrackError' = NextThreshold(maxTrackError)
          /\ maxError' = NextThreshold(maxError)
          /\ iteration' = iteration + 1
          /\ current_rmse' = reply.val
          /\ pc' = "while"
          /\ hist' = [ SawRmse(hist, reply.val) EXCEPT
                         !.belowAt = IF @ = 0 /\ reply.val < params.controlError
                                     THEN iteration + 1 ELSE @ ]
          /\ UNCHANGED << idx, plate_name, cameraVars, solveRMSE >>

\* lines 422-437: the final RMSE and status, the last progress signal of the
\* refinement
ReadFinalRmse ==
  /\ Returned("final_rmse")
  /\ IF reply.status = "raise"
     THEN Fail("final_rmse")
     ELSE /\ EmitProgress(ProgressDetail("refine_end", idx, iteration,
                    [iteration |-> iteration, final_rmse |-> reply.val]))
          /\ hist' = [ SawRmse(hist, reply.val) EXCEPT
                         !.report = IF reply.val < params.controlError
                                    THEN "achieved" ELSE "warning" ]
          /\ pc' = "check_camera"
          /\ UNCHANGED << idx, nodeVars >>

\* ------------------------------------- _process_camera_tracker, step 4
\* lines 218-226: the cancellation check and the progress signal of step 4
\* CameraCancelled with the check left out
CameraCancelled_Unchecked == FALSE

\* line 218: the check of the flag before the camera is created
CameraCancelled == cancelled

CheckCamera ==
  /\ pc = "check_camera"
  /\ UNCHANGED << readOnly, hostVars, mainQueue, hostCalls, touched, reply, cancelled >>
  /\ IF CameraCancelled
     THEN /\ EndNode(Observed(hist))
          /\ UNCHANGED signalVars
     ELSE /\ EmitProgress(ProgressEvent("camera", idx, 0))
          /\ pc' = "cameras_before"
          /\ UNCHANGED << idx, nodeVars, hist >>

\* lines 229-231
GetCamerasBefore ==
  /\ Returned("cameras_before")
  /\ IF reply.status = "raise"
     THEN Fail("cameras_before")
     ELSE /\ cameras_before' = reply.cams
          /\ pc' = "create_camera"
          /\ UNCHANGED << idx, plate_name, refineVars, new_cameras, solveRMSE,
                          signalVars, hist >>

\* lines 237-239
CreateCamera ==
  /\ Returned("create_camera")
  /\ IF reply.status = "raise"
     THEN Fail("create_camera")
     ELSE /\ pc' = "cameras_after"
          /\ UNCHANGED << idx, nodeVars, signalVars, hist >>

\* NewCameras without the subtraction
NewCameras_All(after, before) == after

\* line 247: new_cameras
NewCameras(after, before) == after \ before

\* lines 244-250 and 261-262: the cameras that appeared; none is only a warning
GetCamerasAfter ==
  /\ Returned("cameras_after")
  /\ IF reply.status = "raise"
     THEN Fail("cameras_after")
     ELSE /\ UNCHANGED signalVars
          /\ IF NewCameras(reply.cams, cameras_before) # {}
             THEN /\ new_cameras' = NewCameras(reply.cams, cameras_before)
                  /\ pc' = "setName"
                  /\ UNCHANGED << idx, plate_name, refineVars, cameras_before,
                                  solveRMSE, hist >>
             ELSE EndNode([hist EXCEPT !.noCamera = TRUE])

\* lines 251-260: rename one of the new cameras, signal the node as completed
RenameCamera ==
  /\ pc = "setName"
  /\ UNCHANGED << readOnly, hostVars, hostCalls, touched, reply, cancelled >>
  /\ \/ \E camera_node \in new_cameras :
          /\ mainQueue' = Append(mainQueue, RenameOp(idx, camera_node, FinalName(plate_name)))
          /\ EmitProgress(ProgressEvent("completed", idx, 0))
          /\ EndNode(hist)
     \/ /\ Fail("setName")
        /\ UNCHANGED mainQueue

\* -------------------------------------------------------------------- Next
Next ==
  \/ RunLoop
  \/ ShowControlPanel
  \/ ExecuteInMainThreadWithResult
  \/ GetPlateName
  \/ TrackFeatures
  \/ GetTrackCount
  \/ SolveCamera
  \/ GetInitialRmse
  \/ ReadCurrentRmse
  \/ WhileTest
  \/ SetThresholds
  \/ DeleteRejectedTracks
  \/ DeleteInvalidTracks
  \/ GetRefFrames
  \/ UpdateSolve
  \/ ReadNewRmse
  \/ ReadFinalRmse
  \/ CheckCamera
  \/ GetCamerasBefore
  \/ CreateCamera
  \/ GetCamerasAfter
  \/ RenameCamera
  \/ MainThread
  \/ Cancel

Spec == Init /\ [][Next]_vars

\* ================================================================ the panel
\* AutoTrackWidget (widgets/auto_track_widget.py) with the module-level slots
\* _on_start_tracking and _on_cancel_tracking of auto_track.py.  The widget
\* lives in the main thread; a worker is seen from outside: it is running,
\* emits progress signals, and ends with one terminal signal.  Its signals
\* reach the widget through queued connections, in the order of emission.
MaxRows == 2
MaxRuns == 2
MaxPending == 1

TrackingErrorTitle == "Tracking Error"
HalfWay == 50

besidesPanel == << workerVars, startupVars, dccVars, sceneVars, meterVars >>

\* a signal of worker `run` on its way to the widget
Signal(run, kind, success, text) ==
  [run |-> run, kind |-> kind, success |-> success, text |-> text]

\* the terminal signals run() can end with: lines 64, 81, 103, 113 and 120
Endings(w) ==
  { Signal(w, "complete", TRUE, SuccessMsg),
    Signal(w, "error", FALSE, NodeErrorTitle),
    Signal(w, "error", FALSE, ProcessErrorTitle),
    Signal(w, "error", FALSE, TrackingErrorTitle) }
  \cup IF workers[w].cancelled
       THEN { Signal(w, "complete", FALSE, CancelMsg) }
       ELSE {}

\* refresh_nodes, lines 202-250: one checked row per selected node
Refreshed(n) == [row \in 1..n |-> TRUE]
RefreshStatus(n) == IF n = 0 THEN "No CameraTracker nodes selected" ELSE "Loaded"

\* get_selected_nodes returning every row, checked or not
get_selected_nodes_AllRows == DOMAIN node_table

\* get_selected_nodes, lines 268-282
get_selected_nodes == { row \in DOMAIN node_table : node_table[row] }

\* update_status, lines 332-343
update_status(wd, message, pct) ==
  [wd EXCEPT !.status_label = message, !.progress_bar = pct]

\* tracking_complete, lines 345-362
tracking_complete(wd, success, message) ==
  [wd EXCEPT !.is_processing = FALSE,
             !.track_btn = TRUE,
             !.cancel_btn = FALSE,
             !.progress_bar = IF success THEN 100 ELSE 0,
             !.status_label = IF success THEN message
                              ELSE "Tracking failed or cancelled"]

\* show_error without the call of tracking_complete
show_error_NoReset(wd, title) == [wd EXCEPT !.dialog = title]

\* show_error, lines 364-373: the message box, then tracking_complete(False)
show_error(wd, title) == [tracking_complete(wd, FALSE, "") EXCEPT !.dialog = title]

PanelInit ==
  /\ WorkerAside
  /\ StartupAside
  /\ DccAside
  /\ SceneAside
  /\ MeterAside
  /\ \E n \in 0..MaxRows :
       /\ node_table = Refreshed(n)
       /\ widget = [WidgetInit EXCEPT !.status_label = RefreshStatus(n)]
  /\ worker_ref = 0
  /\ workers = << >>
  /\ signals = << >>

\* the button "Refresh from Selection"
RefreshNodes ==
  /\ \E n \in 0..MaxRows :
       /\ node_table' = Refreshed(n)
       /\ widget' = [widget EXCEPT !.status_label = RefreshStatus(n)]
  /\ UNCHANGED << worker_ref, workers, signals, besidesPanel >>

\* the user clicks the checkbox of a row
ToggleNode ==
  /\ \E row \in DOMAIN node_table :
       node_table' = [node_table EXCEPT ![row] = ~@]
  /\ UNCHANGED << widget, worker_ref, workers, signals, besidesPanel >>

\* StartTracking with the flag of the worker it replaces carried over
StartTracking_CarriesFlag ==
  /\ workers' = Append(workers,
                       [state |-> "running",
                        cancelled |-> IF worker_ref = 0 THEN FALSE
                                      ELSE workers[worker_ref].cancelled])
  /\ worker_ref' = Len(workers) + 1

\* _on_start_tracking, lines 474-492: a new worker replaces _worker and is started
StartTracking ==
  /\ workers' = Append(workers, [state |-> "running", cancelled |-> FALSE])
  /\ worker_ref' = Len(workers) + 1

\* Processing with the Track button left enabled
Processing_TrackLeftEnabled(wd) ==
  [wd EXCEPT !.is_processing = TRUE, !.cancel_btn = TRUE, !.progress_bar = 0]

\* lines 319-322: the state of the panel while a run is processed
Processing(wd) ==
  [wd EXCEPT !.is_processing = TRUE,
             !.track_btn = FALSE,
             !.cancel_btn = TRUE,
             !.progress_bar = 0]

\* _on_track_clicked, lines 301-325, with the slot of start_tracking
OnTrackClicked ==
  /\ widget.track_btn
  /\ IF get_selected_nodes = {}
     THEN /\ widget' = [widget EXCEPT !.dialog = "No Nodes Selected"]
          /\ UNCHANGED << worker_ref, workers >>
     ELSE /\ Len(workers) < MaxRuns
          /\ widget' = Processing(widget)
          /\ StartTracking
  /\ UNCHANGED << node_table, signals, besidesPanel >>

\* _on_cancel_clicked, lines 327-330, with _on_cancel_tracking, lines 495-500
OnCancelClicked ==
  /\ widget.cancel_btn
  /\ workers' = IF worker_ref # 0 /\ workers[worker_ref].state = "running"
                THEN [workers EXCEPT ![worker_ref].cancelled = TRUE]
                ELSE workers
  /\ widget' = update_status(widget, "Cancelling...", 0)
  /\ UNCHANGED << node_table, worker_ref, signals, besidesPanel >>

PendingProgress(w) ==
  { k \in 1..Len(signals) : signals[k].run = w /\ signals[k].kind = "progress" }

\* a running worker emits progress_update
WorkerProgress ==
  /\ \E w \in DOMAIN workers :
       /\ workers[w].state = "running"
       /\ Cardinality(PendingProgress(w)) < MaxPending
       /\ signals' = Append(signals, Signal(w, "progress", FALSE, "Processing"))
  /\ UNCHANGED << node_table, widget, worker_ref, workers, besidesPanel >>

\* run() emits its terminal signal and returns
WorkerEnds ==
  /\ \E w \in DOMAIN workers :
       /\ workers[w].state = "running"
       /\ \E sig \in Endings(w) : signals' = Append(signals, sig)
       /\ workers' = [workers EXCEPT ![w].state = "finished"]
  /\ UNCHANGED << node_table, widget, worker_ref, besidesPanel >>

\* the widget's thread runs the slot of the oldest queued signal:
\* update_status, tracking_complete or show_error (lines 487-489)
HandleSignal ==
  /\ signals # << >>
  /\ signals' = Tail(signals)
  /\ widget' = CASE Head(signals).kind = "progress"
                      -> update_status(widget, Head(signals).text, HalfWay)
                 [] Head(signals).kind = "complete"
                      -> tracking_complete(widget, Head(signals).success, Head(signals).text)
                 [] Head(signals).kind = "error"
                      -> show_error(widget, Head(signals).text)
  /\ UNCHANGED << node_table, worker_ref, workers, besidesPanel >>

PanelNext ==
  \/ RefreshNodes
  \/ ToggleNode
  \/ OnTrackClicked
  \/ OnCancelClicked
  \/ WorkerProgress
  \/ WorkerEnds
  \/ HandleSignal

PanelSpec == PanelInit /\ [][PanelNext]_vars

\* ============================================== a run, up to the panel
\* The worker of Spec, started by the panel (which is therefore in its
\* processing state), and the slot that takes the worker's terminal signal
\* to the panel.  The worker thread is scheduled, the main thread executes
\* every call it is handed and answers it, and the panel's event loop runs
\* the slot of a signal that has been emitted.
LiveThresholds == { <<3, 400, 400>> }

LiveInit ==
  /\ WorkerStart(LiveThresholds)
  /\ node_table = << >>
  /\ widget = Processing(WidgetInit)
  /\ worker_ref = 0
  /\ workers = << >>
  /\ signals = << >>
  /\ StartupAside
  /\ DccAside
  /\ SceneAside
  /\ MeterAside

\* auto_track.py, lines 488-489: the slots of tracking_complete and
\* error_occurred, run once for the terminal signal of the worker
DeliverTerminal ==
  /\ pc = "done"
  /\ widget.is_processing
  /\ \E e \in terminal :
       widget' = IF e.kind = "complete"
                 THEN tracking_complete(widget, e.success, e.text)
                 ELSE show_error(widget, e.text)
  /\ UNCHANGED << workerVars, node_table, worker_ref, workers, signals,
                  startupVars, dccVars, sceneVars, meterVars >>

\* the steps of the worker thread
WorkerStep ==
  \/ RunLoop
  \/ ShowControlPanel
  \/ ExecuteInMainThreadWithResult
  \/ GetPlateName
  \/ TrackFeatures
  \/ GetTrackCount
  \/ SolveCamera
  \/ GetInitialRmse
  \/ ReadCurrentRmse
  \/ WhileTest
  \/ SetThresholds
  \/ DeleteRejectedTracks
  \/ DeleteInvalidTracks
  \/ GetRefFrames
  \/ UpdateSolve
  \/ ReadNewRmse
  \/ ReadFinalRmse
  \/ CheckCamera
  \/ GetCamerasBefore
  \/ CreateCamera
  \/ GetCamerasAfter
  \/ RenameCamera

LiveNext ==
  \/ WorkerStep
  \/ MainThread
  \/ Cancel
  \/ DeliverTerminal

LiveSpec ==
  /\ LiveInit
  /\ [][LiveNext]_vars
  /\ WF_vars(WorkerStep)
  /\ WF_vars(MainThread)
  /\ WF_vars(DeliverTerminal)

\* ============================================================ the bootstrap
\* nuke/startup/init.py, called by bootstrap_vfxpipe (DCC_plugins/nuke/init.py),
\* which catches and prints an exception of initialize().  One thread;
\* startup.pc is the position inside initialize().
MaxTools == 2
MaxCalls == 3

\* what loading a module of nuke/tools does (lines 110-130): register() returns
\* the tool's menu name and action, the import raises, the module has no
\* register(), or register() raises
ToolKinds == {"registers", "import_fails", "no_register", "register_raises"}

besidesStartup == << workerVars, panelVars, dccVars, sceneVars, meterVars >>

MenuEntry(kind, tool) == [kind |-> kind, tool |-> tool]

\* AlreadyInitialized with the flag ignored
AlreadyInitialized_Never == FALSE

\* line 30
AlreadyInitialized == initialized

BootInit ==
  /\ WorkerAside
  /\ PanelAside
  /\ DccAside
  /\ SceneAside
  /\ MeterAside
  /\ initialized = FALSE
  /\ registered_tools = << >>
  /\ menu_entries = << >>
  /\ \E n \in 0..MaxTools : tool_modules \in [1..n -> ToolKinds]
  /\ startup = StartupIdle

\* initialize(), lines 28-34: the test of the flag
Initialize ==
  /\ startup.pc = "idle"
  /\ startup.calls < MaxCalls
  /\ startup' = [startup EXCEPT !.calls = @ + 1,
                                !.raised = FALSE,
                                !.notice = AlreadyInitialized,
                                !.pc = IF AlreadyInitialized THEN "idle" ELSE "validate"]
  /\ UNCHANGED << initialized, registered_tools, menu_entries, tool_modules,
                  besidesStartup >>

\* validate_environment, lines 45-76: it returns, or an exception that is not
\* an ImportError (line 63, line 73) leaves initialize()
ValidateEnvironment ==
  /\ startup.pc = "validate"
  /\ \/ startup' = [startup EXCEPT !.pc = "discover"]
     \/ startup' = [startup EXCEPT !.pc = "idle", !.raised = TRUE]
  /\ UNCHANGED << initialized, registered_tools, menu_entries, tool_modules,
                  besidesStartup >>

\* discover_and_register_tools, lines 88-104: the scan of the tools directory;
\* an exception of the scan leaves initialize()
DiscoverTools ==
  /\ startup.pc = "discover"
  /\ \/ startup' = [startup EXCEPT !.discoveries = @ + 1,
                                   !.remaining = DOMAIN tool_modules,
                                   !.pc = IF tool_modules = << >> THEN "menus" ELSE "loop"]
     \/ startup' = [startup EXCEPT !.discoveries = @ + 1, !.pc = "idle", !.raised = TRUE]
  /\ UNCHANGED << initialized, registered_tools, menu_entries, tool_modules,
                  besidesStartup >>

\* the for loop of line 107 after a module has been dealt with
AfterTool(rest) == IF rest = {} THEN "menus" ELSE "loop"

\* AfterFailure with the exception leaving initialize()
AfterFailure_Abort(rest) == "idle"

\* lines 124-130: the failure is printed and the loop goes on
AfterFailure(rest) == AfterTool(rest)

\* one turn of the for loop, lines 107-130, on any module not yet visited
LoadTool ==
  /\ startup.pc = "loop"
  /\ \E tool_name \in startup.remaining :
       LET rest == startup.remaining \ {tool_name} IN
         IF tool_modules[tool_name] = "registers"
         THEN /\ registered_tools' = Append(registered_tools, tool_name)
              /\ startup' = [startup EXCEPT !.remaining = rest, !.pc = AfterTool(rest)]
         ELSE /\ UNCHANGED registered_tools
              /\ startup' = [startup EXCEPT !.remaining = rest,
                                            !.errors = @ \cup {tool_name},
                                            !.pc = AfterFailure(rest)]
  /\ UNCHANGED << initialized, menu_entries, tool_modules, besidesStartup >>

\* the commands setup_menus adds when nothing fails: one per registered tool,
\* then "About VfxPipe"
MenuCommands ==
  [k \in 1..Len(registered_tools) |-> MenuEntry("tool", registered_tools[k])]
    \o << MenuEntry("about", 0) >>

\* setup_menus, lines 141-177, and the end of initialize(), lines 41-42.  The
\* commands are added in order; an exception (nuke missing, a host call
\* failing) is caught inside setup_menus and ends it after the commands added
\* so far.
SetupMenus ==
  /\ startup.pc = "menus"
  /\ \E k \in 0..Len(MenuCommands) :
       menu_entries' = menu_entries \o SubSeq(MenuCommands, 1, k)
  /\ initialized' = TRUE
  /\ startup' = [startup EXCEPT !.pc = "idle", !.menu_setups = @ + 1,
                                !.completed = @ + 1]
  /\ UNCHANGED << registered_tools, tool_modules, besidesStartup >>

BootNext ==
  \/ Initialize
  \/ ValidateEnvironment
  \/ DiscoverTools
  \/ LoadTool
  \/ SetupMenus

BootSpec == BootInit /\ [][BootNext]_vars

\* ========================================================== host detection
\* utils/host.py: getDcc and getPySideVersion are functions of what the Python
\* process can import and of what the host reports about itself.
Modules == {"nuke", "maya", "hou", "bpy"}
DccArgs == {"None", "nuke", "maya", "houdini", "blender", "katana"}

NukeMajors == 15..16
MayaVersions == 2024..2026
HoudiniMajors == 19..20

Environments ==
  [ modules : SUBSET Modules,
    nuke : [major : NukeMajors, has_major : BOOLEAN, readable : BOOLEAN],
    maya : [major : MayaVersions, readable : BOOLEAN],
    hou : [major : HoudiniMajors, readable : BOOLEAN] ]

besidesDcc == << workerVars, panelVars, startupVars, sceneVars, meterVars >>

\* ---- strings, as sequences of characters
DigitChars == << "0", "1", "2", "3", "4", "5", "6", "7", "8", "9" >>
IsDigit(c) == \E d \in 0..9 : DigitChars[d + 1] = c
DigitOf(c) == CHOOSE d \in 0..9 : DigitChars[d + 1] = c

\* str(n) of a natural number
RECURSIVE Str(_)
Str(n) ==
  IF n < 10 THEN << DigitChars[n + 1] >>
  ELSE Str(n \div 10) \o << DigitChars[(n % 10) + 1] >>

\* s.split('.')[0]
FirstField(s) ==
  LET dots == { k \in 1..Len(s) : s[k] = "." } IN
    IF dots = {} THEN s
    ELSE SubSeq(s, 1, (CHOOSE k \in dots : \A j \in dots : k <= j) - 1)

RECURSIVE DecimalValue(_)
DecimalValue(s) ==
  IF s = << >> THEN 0
  ELSE 10 * DecimalValue(SubSeq(s, 1, Len(s) - 1)) + DigitOf(s[Len(s)])

\* int(s) for a string of the characters used here: the number, or ValueError
int(s) ==
  IF s # << >> /\ \A k \in 1..Len(s) : IsDigit(s[k])
  THEN [ok |-> TRUE, value |-> DecimalValue(s)]
  ELSE [ok |-> FALSE, value |-> 0]

\* ---- what the hosts report
\* nuke.NUKE_VERSION_STRING, such as "15.1v3"; a string that does not start
\* with the major version cannot be read
NUKE_VERSION_STRING(env) ==
  IF env.nuke.readable
  THEN Str(env.nuke.major) \o << ".", "1", "v", "3" >>
  ELSE << "v" >> \o Str(env.nuke.major)

\* cmds.about(version=True), such as "2024"; a string with more than the
\* number cannot be read
about_version(env) ==
  IF env.maya.readable
  THEN Str(env.maya.major)
  ELSE Str(env.maya.major) \o << " ", "x" >>

\* ---- getDcc, lines 21-50
\* getDcc probing maya before nuke
getDcc_MayaFirst(env) ==
  IF "maya" \in env.modules THEN "maya"
  ELSE IF "nuke" \in env.modules THEN "nuke"
  ELSE IF "hou" \in env.modules THEN "houdini"
  ELSE IF "bpy" \in env.modules THEN "blender"
  ELSE "None"

getDcc(env) ==
  IF "nuke" \in env.modules THEN "nuke"
  ELSE IF "maya" \in env.modules THEN "maya"
  ELSE IF "hou" \in env.modules THEN "houdini"
  ELSE IF "bpy" \in env.modules THEN "blender"
  ELSE "None"

\* ---- getPySideVersion, lines 79-143
Returns(v) == [status |-> "returned", value |-> v]
RaisesRuntimeError == [status |-> "raised", value |-> 0]

\* NukePySide with > in place of >=
NukePySide_Exclusive(major_version) == IF major_version > 16 THEN 6 ELSE 2

\* lines 98-101
NukePySide(major_version) == IF major_version >= 16 THEN 6 ELSE 2

\* lines 115-118
MayaPySide(maya_version) == IF maya_version >= 2025 THEN 6 ELSE 2

\* lines 133-136
HoudiniPySide(major_version) == IF major_version >= 20 THEN 6 ELSE 2

\* lines 85-104
NukeBranch(env) ==
  IF "nuke" \notin env.modules THEN RaisesRuntimeError
  ELSE LET major_version ==
             IF env.nuke.has_major
             THEN [ok |-> TRUE, value |-> env.nuke.major]
             ELSE int(FirstField(NUKE_VERSION_STRING(env)))
       IN IF major_version.ok
          THEN Returns(NukePySide(major_version.value))
          ELSE RaisesRuntimeError

\* MayaBranch falling back to the default when the version cannot be read
MayaBranch_Default(env) ==
  IF "maya" \notin env.modules THEN RaisesRuntimeError
  ELSE LET maya_version == int(about_version(env))
       IN IF maya_version.ok
          THEN Returns(MayaPySide(maya_version.value))
          ELSE Returns(6)

\* lines 108-121
MayaBranch(env) ==
  IF "maya" \notin env.modules THEN RaisesRuntimeError
  ELSE LET maya_version == int(about_version(env))
       IN IF maya_version.ok
          THEN Returns(MayaPySide(maya_version.value))
          ELSE RaisesRuntimeError

\* lines 125-139: hou.applicationVersion()[0]
HoudiniBranch(env) ==
  IF "hou" \notin env.modules \/ ~env.hou.readable THEN RaisesRuntimeError
  ELSE Returns(HoudiniPySide(env.hou.major))

\* lines 80-81
ResolvedDcc(d, env) == IF d = "None" THEN getDcc(env) ELSE d

getPySideVersion(d, env) ==
  CASE ResolvedDcc(d, env) = "nuke" -> NukeBranch(env)
    [] ResolvedDcc(d, env) = "maya" -> MayaBranch(env)
    [] ResolvedDcc(d, env) = "houdini" -> HoudiniBranch(env)
    [] OTHER -> Returns(6)

HostInit ==
  /\ WorkerAside
  /\ PanelAside
  /\ StartupAside
  /\ SceneAside
  /\ MeterAside
  /\ environment \in Environments
  /\ dcc = "None"
  /\ result = NoResult

\* a call of getDcc()
CallGetDcc ==
  /\ result' = [call |-> "getDcc", status |-> "returned", value |-> 0,
                name |-> getDcc(environment)]
  /\ UNCHANGED << environment, dcc, besidesDcc >>

\* a call of getPySideVersion(dcc)
CallGetPySideVersion ==
  /\ \E d \in DccArgs :
       /\ dcc' = d
       /\ result' = [call |-> "getPySideVersion",
                     status |-> getPySideVersion(d, environment).status,
                     value |-> getPySideVersion(d, environment).value,
                     name |-> ResolvedDcc(d, environment)]
  /\ UNCHANGED << environment, besidesDcc >>

HostNext ==
  \/ CallGetDcc
  \/ CallGetPySideVersion

HostSpec == HostInit /\ [][HostNext]_vars

\* ===================================================== the camera of a solve
\* TrackingWorker._create_camera (auto_track.py, lines 264-308), the solver
\* node it reads and the camera node it returns.  A knob holds one value per
\* view; a camera knob with an expression shows what the expression gives.
MaxViews == 2
MaxChanges == 2

KnobValues == 1..2
SolvedValue == 1

besidesScene == << workerVars, panelVars, startupVars, dccVars, meterVars >>

Views(n) == 1..n

CameraKnobs ==
  { "focal", "haperture", "vaperture", "translate", "rotate",
    "win_translate", "win_scale" }

\* the knob of the solver each camera knob is taken from
SourceKnob(k) ==
  CASE k = "focal" -> "focalLength"
    [] k = "haperture" -> "aperture.x"
    [] k = "vaperture" -> "aperture.y"
    [] k = "translate" -> "camTranslate"
    [] k = "rotate" -> "camRotate"
    [] k = "win_translate" -> "windowTranslate"
    [] k = "win_scale" -> "windowScale"

SolverKnobs == { SourceKnob(k) : k \in CameraKnobs }

\* the value a knob of a new Camera node holds
DefaultValue == 0

\* line 284: nuke.createNode('Camera', '', False)
NewCamera(n) ==
  [k \in CameraKnobs |->
     [expression |-> "none", values |-> [v \in Views(n) |-> DefaultValue]]]

\* lines 290-296: knob.setExpression(solver.name() + "." + source)
setExpression(knob, source) == [knob EXCEPT !.expression = source]

\* lines 299-303: knob.fromScript(solver.knob(source).toScript(False))
fromScript(knob, script) == [knob EXCEPT !.values = script]

\* BakedViews with the first view only
BakedViews_FirstOnly(n) == {1}

\* line 304: the views `for i in range(numviews)` writes, i + 1
BakedViews(n) == { i + 1 : i \in 0..(n - 1) }

\* lines 304-306: knob.setValue(solver.knob("aperture").getValue(c, i+1), 0, 0, i+1)
setApertures(knob, source, n) ==
  [knob EXCEPT !.values =
     [v \in Views(n) |-> IF v \in BakedViews(n) THEN source[v] ELSE knob.values[v]]]

\* lines 282-308
create_camera(s, link, numviews) ==
  [k \in CameraKnobs |->
     IF link
     THEN setExpression(NewCamera(numviews)[k], SourceKnob(k))
     ELSE IF k \in {"haperture", "vaperture"}
          THEN setApertures(NewCamera(numviews)[k], s[SourceKnob(k)], numviews)
          ELSE fromScript(NewCamera(numviews)[k], s[SourceKnob(k)])]

\* what a camera knob shows in a view
KnobValue(k, v) ==
  IF camera[k].expression # "none"
  THEN solver[camera[k].expression][v]
  ELSE camera[k].values[v]

CameraInit ==
  /\ WorkerAside
  /\ PanelAside
  /\ StartupAside
  /\ DccAside
  /\ MeterAside
  /\ \E n \in 1..MaxViews, l \in BOOLEAN :
       /\ solver = [k \in SolverKnobs |-> [v \in Views(n) |-> SolvedValue]]
       /\ camera = NewCamera(n)
       /\ scene = [link |-> l, numviews |-> n, made |-> FALSE, changes |-> 0,
                   solver_then |-> solver]

\* the main thread runs _create_camera(node), line 238
CreateCameraNode ==
  /\ ~scene.made
  /\ camera' = create_camera(solver, scene.link, scene.numviews)
  /\ scene' = [scene EXCEPT !.made = TRUE, !.solver_then = solver]
  /\ UNCHANGED << solver, besidesScene >>

\* a knob of the solver takes another value in one view (a new solve, an edit
\* by the artist)
SolverChanges ==
  /\ scene.changes < MaxChanges
  /\ \E k \in SolverKnobs, v \in Views(scene.numviews), x \in KnobValues :
       /\ x # solver[k][v]
       /\ solver' = [solver EXCEPT ![k][v] = x]
  /\ scene' = [scene EXCEPT !.changes = @ + 1]
  /\ UNCHANGED << camera, besidesScene >>

CameraNext ==
  \/ CreateCameraNode
  \/ SolverChanges

CameraSpec == CameraInit /\ [][CameraNext]_vars

\* ==================================================== the progress meter
\* The percentages of progress_update (auto_track.py, lines 68, 85-89, 153-157,
\* 179-183, 204-214, 222-226, 256-260, 400, 408-412, 433-437) are Python
\* floats: IEEE 754 binary64, every operation rounded to the nearest value,
\* ties to even.  A float is held here as man * 2^exp with 2^52 <= man < 2^53
\* (or man = 0); man is a number in base 2^LimbBits, least significant limb
\* first.
LimbBits == 14
Precision == 53
DivisionBits == 70

Base == 2 ^ LimbBits

\* ---- natural numbers of any size
RECURSIVE Strip(_)
Strip(a) ==
  IF a = << >> THEN << >>
  ELSE IF a[Len(a)] = 0 THEN Strip(SubSeq(a, 1, Len(a) - 1)) ELSE a

RECURSIVE Limbs(_)
Limbs(n) == IF n = 0 THEN << >> ELSE << n % Base >> \o Limbs(n \div Base)

RECURSIVE AddCarry(_, _, _)
AddCarry(a, b, c) ==
  IF a = << >> /\ b = << >>
  THEN IF c = 0 THEN << >> ELSE << c >>
  ELSE LET x == IF a = << >> THEN 0 ELSE Head(a)
           y == IF b = << >> THEN 0 ELSE Head(b)
           ra == IF a = << >> THEN << >> ELSE Tail(a)
           rb == IF b = << >> THEN << >> ELSE Tail(b)
       IN << (x + y + c) % Base >> \o AddCarry(ra, rb, (x + y + c) \div Base)

BigAdd(a, b) == AddCarry(a, b, 0)

RECURSIVE MulCarry(_, _, _)
MulCarry(a, k, c) ==
  IF a = << >>
  THEN IF c = 0 THEN << >> ELSE << c >>
  ELSE << (Head(a) * k + c) % Base >> \o MulCarry(Tail(a), k, (Head(a) * k + c) \div Base)

\* a times a limb
BigMulLimb(a, k) == MulCarry(a, k, 0)

RECURSIVE BigMul(_, _)
BigMul(a, b) ==
  IF b = << >> THEN << >>
  ELSE BigAdd(BigMulLimb(a, Head(b)), << 0 >> \o BigMul(a, Tail(b)))

RECURSIVE BitLen(_)
BitLen(n) == IF n = 0 THEN 0 ELSE 1 + BitLen(n \div 2)

\* the number of bits of a
BigBitLength(a) ==
  LET s == Strip(a) IN
    IF s = << >> THEN 0 ELSE LimbBits * (Len(s) - 1) + BitLen(s[Len(s)])

Zeros(n) == [i \in 1..n |-> 0]

\* a * 2^k
BigShiftLeft(a, k) ==
  Zeros(k \div LimbBits) \o BigMulLimb(a, 2 ^ (k % LimbBits))

\* floor(a / 2^k)
BigShiftRight(a, k) ==
  LET drop == k \div LimbBits
      s == k % LimbBits
      rest == IF drop >= Len(a) THEN << >> ELSE SubSeq(a, drop + 1, Len(a))
  IN Strip([i \in 1..Len(rest) |->
              (rest[i] \div (2 ^ s))
                + (IF i < Len(rest) THEN (rest[i + 1] % (2 ^ s)) * (2 ^ (LimbBits - s))
                   ELSE 0)])

\* bit k of a (bit 0 is the least significant)
BigBit(a, k) ==
  IF k \div LimbBits >= Len(a) THEN 0
  ELSE (a[(k \div LimbBits) + 1] \div (2 ^ (k % LimbBits))) % 2

\* a mod 2^k is not zero
BigLowBits(a, k) ==
  \E i \in 1..Len(a) :
     \/ i <= k \div LimbBits /\ a[i] # 0
     \/ i = (k \div LimbBits) + 1 /\ a[i] % (2 ^ (k % LimbBits)) # 0

\* a <= b
BigLe(a, b) ==
  LET x == Strip(a)
      y == Strip(b)
  IN \/ Len(x) < Len(y)
     \/ /\ Len(x) = Len(y)
        /\ \A i \in 1..Len(x) :
             x[i] > y[i] => \E j \in (i + 1)..Len(x) : x[j] < y[j]

\* floor(a / d) and whether something is left, for a limb d
RECURSIVE DivLimb(_, _, _)
DivLimb(a, d, r) ==
  IF a = << >> THEN [quot |-> << >>, left |-> r # 0]
  ELSE LET cur == r * Base + a[Len(a)]
           low == DivLimb(SubSeq(a, 1, Len(a) - 1), d, cur % d)
       IN [quot |-> low.quot \o << cur \div d >>, left |-> low.left]

\* ---- floats
Zero == [man |-> << >>, exp |-> 0]

\* the float nearest to n * 2^e (with something more, below the last bit of
\* n, when sticky), ties to even
Round(n, e, sticky) ==
  LET len == BigBitLength(n)
      d == len - Precision
  IN IF len = 0 THEN Zero
     ELSE IF d <= 0
     THEN [man |-> Strip(BigShiftLeft(n, 0 - d)), exp |-> e + d]
     ELSE LET q == BigShiftRight(n, d)
              half == BigBit(n, d - 1) = 1
              more == sticky \/ BigLowBits(n, d - 1)
              up == half /\ (more \/ BigBit(q, 0) = 1)
              r == IF up THEN Strip(BigAdd(q, << 1 >>)) ELSE q
          IN IF BigBitLength(r) > Precision
             THEN [man |-> BigShiftRight(r, 1), exp |-> e + d + 1]
             ELSE [man |-> r, exp |-> e + d]

\* a / b for two integers, 0 <= a, 0 < b < Base
Div(a, b) ==
  LET q == DivLimb(BigShiftLeft(Limbs(a), DivisionBits), b, 0)
  IN Round(Strip(q.quot), 0 - DivisionBits, q.left)

\* float(n)
Float(n) == Div(n, 1)

\* x * y
Mul(x, y) ==
  IF x.man = << >> \/ y.man = << >> THEN Zero
  ELSE Round(BigMul(x.man, y.man), x.exp + y.exp, FALSE)

\* x and y as integers in units of one power of two
Aligned(x, y) ==
  IF x.exp >= y.exp
  THEN [a |-> BigShiftLeft(x.man, x.exp - y.exp), b |-> y.man, exp |-> y.exp]
  ELSE [a |-> x.man, b |-> BigShiftLeft(y.man, y.exp - x.exp), exp |-> x.exp]

\* x + y
Add(x, y) ==
  IF x.man = << >> THEN y
  ELSE IF y.man = << >> THEN x
  ELSE Round(BigAdd(Aligned(x, y).a, Aligned(x, y).b), Aligned(x, y).exp, FALSE)

\* x <= y
Le(x, y) ==
  IF x.man = << >> THEN TRUE
  ELSE IF y.man = << >> THEN FALSE
  ELSE BigLe(Aligned(x, y).a, Aligned(x, y).b)

\* ---- the percentages, as the code computes them
MaxBatch == 3

besidesMeter == << workerVars, panelVars, startupVars, dccVars, sceneVars >>

\* the literals 0.2, 0.4, 0.5, 0.9 and 0.3
Fifth == Div(1, 5)
TwoFifths == Div(2, 5)
Half == Div(1, 2)
NineTenths == Div(9, 10)
ThreeTenths == Div(3, 10)
Hundred == Float(100)

\* line 68: base_progress = (idx / total_nodes) * 100
base_progress == Mul(Div(meter.idx, meter.total_nodes), Hundred)

\* line 97: progress_range = 100.0 / total_nodes
progress_range == Div(100, meter.total_nodes)

\* lines 213-214: base_progress and progress_range of _update_solve_recursive
refine_base == Add(base_progress, Mul(progress_range, Half))
refine_range == Mul(progress_range, ThreeTenths)

\* line 400: iter_progress
iter_progress ==
  Add(refine_base, Mul(Div(meter.iteration, meter.max_iter), refine_range))

\* progress_update.emit(_, pct, _) from position `stage`
Emit(stage, pct) == [meter EXCEPT !.at = stage, !.percentage = pct]

LoopTop == {"for", "completed"}
Refinement == {"refining", "iteration"}

MeterInit ==
  /\ WorkerAside
  /\ PanelAside
  /\ StartupAside
  /\ DccAside
  /\ SceneAside
  /\ \E n \in 1..MaxBatch, mi \in 0..MaxIter :
       meter = [total_nodes |-> n, max_iter |-> mi, idx |-> 0, at |-> "for",
                iteration |-> 0, percentage |-> Zero]

\* lines 61-89: the next node of the batch
EmitPreparing ==
  /\ meter.at \in LoopTop
  /\ meter.idx < meter.total_nodes
  /\ meter' = Emit("preparing", base_progress)
  /\ UNCHANGED besidesMeter

\* lines 153-157
EmitTracking ==
  /\ meter.at = "preparing"
  /\ meter' = Emit("tracking", Add(base_progress, Mul(progress_range, Fifth)))
  /\ UNCHANGED besidesMeter

\* lines 179-183
EmitSolving ==
  /\ meter.at = "tracking"
  /\ meter' = Emit("solving", Add(base_progress, Mul(progress_range, TwoFifths)))
  /\ UNCHANGED besidesMeter

\* lines 204-208, 358
EmitRefining ==
  /\ meter.at = "solving"
  /\ meter' = [Emit("refining", Add(base_progress, Mul(progress_range, Half)))
                 EXCEPT !.iteration = 0]
  /\ UNCHANGED besidesMeter

\* lines 362, 400-418: one turn of the while loop
EmitIteration ==
  /\ meter.at \in Refinement
  /\ meter.iteration < meter.max_iter
  /\ meter' = [Emit("iteration", iter_progress) EXCEPT !.iteration = @ + 1]
  /\ UNCHANGED besidesMeter

\* lines 422-437: the loop has ended, at the target or at the cap
EmitRefined ==
  /\ meter.at \in Refinement
  /\ meter' = Emit("refined", Add(refine_base, refine_range))
  /\ UNCHANGED besidesMeter

\* lines 222-226
EmitCreating ==
  /\ meter.at = "refined"
  /\ meter' = Emit("creating", Add(base_progress, Mul(progress_range, NineTenths)))
  /\ UNCHANGED besidesMeter

\* lines 250-260: the camera has been found; the for loop goes to the next node
EmitCompleted ==
  /\ meter.at = "creating"
  /\ meter' = [Emit("completed", Add(base_progress, progress_range))
                 EXCEPT !.idx = @ + 1]
  /\ UNCHANGED besidesMeter

\* lines 261-262: no new camera; nothing is emitted and the for loop goes on
NoCameraFound ==
  /\ meter.at = "creating"
  /\ meter' = [meter EXCEPT !.at = "for", !.idx = @ + 1]
  /\ UNCHANGED besidesMeter

\* run() returns: the batch is done, the run was cancelled, or a call failed
RunReturns ==
  /\ meter.at # "done"
  /\ meter' = [meter EXCEPT !.at = "done"]
  /\ UNCHANGED besidesMeter

MeterNext ==
  \/ EmitPreparing
  \/ EmitTracking
  \/ EmitSolving
  \/ EmitRefining
  \/ EmitIteration
  \/ EmitRefined
  \/ EmitCreating
  \/ EmitCompleted
  \/ NoCameraFound
  \/ RunReturns

MeterSpec == MeterInit /\ [][MeterNext]_vars

\* ================================================================ properties
Finished == pc = "done"
ErrorEvents == { e \in terminal : e.kind = "error" }
CompleteEvents == { e \in terminal : e.kind = "complete" }
QueuedCalls == { mainQueue[k] : k \in 1..Len(mainQueue) }

\* the worker hands a call to the main thread or calls the host itself
WorkerIssues == Len(mainQueue') > Len(mainQueue) \/ touched' # touched

\* the positions of the worker inside _update_solve_recursive and up to line 218
RefinePcs ==
  { "current_rmse", "while", "set_minLen", "set_maxTrackError", "set_maxError",
    "rej_setValue", "rej_execute", "inv_setValue", "inv_execute", "refFrames",
    "update_frames", "doUpdateSolve", "new_rmse", "final_rmse", "check_camera" }

\* the body of the while loop, lines 367-419
IterationPcs ==
  { "set_minLen", "set_maxTrackError", "set_maxError", "rej_setValue",
    "rej_execute", "inv_setValue", "inv_execute", "refFrames", "update_frames",
    "doUpdateSolve", "new_rmse" }

\* C1 (as claimed): a run on which cancel() was called before the terminal
\* signal, and which ends with a completion signal, ends with
\* tracking_complete(False, 'Tracking cancelled by user') and never with
\* tracking_complete(True, ...), whatever node was being processed.
C1_CancelReportsCancelled ==
  (Finished /\ cancelled /\ ErrorEvents = {})
     => terminal = {CompleteEvent(FALSE, CancelMsg)}

\* C2 (as claimed): when the RMSE read after iteration k of an uncancelled
\* refinement is below controlError, the loop has run k iterations, k is
\* strictly less than max_iter, and the final status is "target achieved".
C2_StopsBelowCap ==
  (pc = "check_camera" /\ ~cancelled /\ hist.belowAt > 0)
     => /\ iteration = hist.belowAt
        /\ iteration < params.max_iter
        /\ hist.report = "achieved"

\* C2 (amended): when the RMSE read after iteration k of an uncancelled
\* refinement is below controlError, no iteration is performed after k, the
\* loop exits with iteration count k, which is at most max_iter (equal to it
\* when the target is reached in the last permitted iteration), and the final
\* status is "target achieved".
C2_StopsAtTarget ==
  (~cancelled /\ hist.belowAt > 0)
     => /\ iteration = hist.belowAt
        /\ iteration <= params.max_iter
        /\ pc \notin IterationPcs
        /\ pc = "check_camera" => hist.report = "achieved"

C2_Witness ==
  /\ pc = "check_camera"
  /\ ~cancelled
  /\ hist.belowAt = params.max_iter
  /\ params.max_iter >= 2
  /\ hist.report = "achieved"

\* C3: an uncancelled refinement in which every RMSE read stayed
\* >= controlError has performed exactly max_iter iterations, its outcome is
\* the warning status, no terminal signal has been emitted, and the next step
\* of the worker is the camera creation (progress signal of step 4).
C3_CapIsWarning ==
  [][ (pc = "check_camera" /\ ~cancelled /\ ~hist.belowSeen)
        => /\ iteration = params.max_iter
           /\ hist.report = "warning"
           /\ terminal = {}
           /\ pc' # pc => /\ pc' = "cameras_before"
                          /\ terminal' = {}
                          /\ progress'.stage = "camera" ]_vars

C3_Witness ==
  /\ pc = "cameras_before"
  /\ ~cancelled
  /\ ~hist.belowSeen
  /\ iteration = params.max_iter
  /\ params.max_iter >= 2
  /\ hist.report = "warning"

\* C4: after k completed iterations the thresholds of the loop are
\* minLen0 + k, maxTrackError0 - 0.25k and maxError0 - 0.25k, below zero
\* included, and the value written to each threshold knob in iteration k
\* (1-based) is the start value moved by k-1 steps.
C4_ThresholdDecay ==
  /\ pc \in RefinePcs =>
       /\ minLen = params.minLen + iteration
       /\ maxTrackError = params.maxTrackError - 25 * iteration
       /\ maxError = params.maxError - 25 * iteration
  /\ hist.pushedIter["minLengthThreshold"] > 0 =>
       hist.pushed["minLengthThreshold"]
         = params.minLen + (hist.pushedIter["minLengthThreshold"] - 1)
  /\ hist.pushedIter["maxRMSEThreshold"] > 0 =>
       hist.pushed["maxRMSEThreshold"]
         = params.maxTrackError - 25 * (hist.pushedIter["maxRMSEThreshold"] - 1)
  /\ hist.pushedIter["maxErrorThreshold"] > 0 =>
       hist.pushed["maxErrorThreshold"]
         = params.maxError - 25 * (hist.pushedIter["maxErrorThreshold"] - 1)

C4_Witness ==
  /\ hist.pushedIter["maxRMSEThreshold"] = 2
  /\ hist.pushed["maxRMSEThreshold"] < 0
  /\ hist.pushedIter["maxErrorThreshold"] = 2
  /\ hist.pushed["maxErrorThreshold"] = 0

\* the host calls of _process_camera_tracker whose failure is caught on the
\* spot: lines 139-146, 166-172 and 191-197
GuardedSites == {"plate_name", "track_count", "initial_rmse"}

C6_StopsAtFirstFailure ==
  \A e \in ErrorEvents :
     /\ Finished
     /\ CompleteEvents = {}
     /\ \A j \in touched : j <= e.node
     /\ \A c \in QueuedCalls : c.node <= e.node

C6_Witness ==
  /\ ErrorEvent(ProcessErrorTitle, 1) \in terminal
  /\ total_nodes >= 2
  /\ mainQueue = << >>

\* C7: after cancel() was requested while node i was being processed, no host
\* call is triggered on a node after i.
C7_NoLaterNodeAfterCancel ==
  hist.cancelAt > 0
     => /\ \A j \in touched : j <= hist.cancelAt
        /\ \A c \in QueuedCalls : c.node <= hist.cancelAt

C7_Witness ==
  /\ hist.cancelAt = 1
  /\ hist.cancelMid
  /\ total_nodes >= 2
  /\ Finished
  /\ terminal = {CompleteEvent(FALSE, CancelMsg)}

\* C8 (as claimed): once the flag is set, the worker issues no further host
\* call.
C8_NoCallAfterCancel ==
  [][ cancelled => ~WorkerIssues ]_vars

\* C8 (amended): once one of the cancellation checks (lines 62, 149, 175, 200,
\* 218, 363) has seen the flag, the worker issues no further host call; until
\* then it goes on issuing the calls that lie before the next check.
C8_NoCallAfterObserved ==
  [][ hist.cancelObserved => ~WorkerIssues ]_vars

C8_Witness ==
  /\ hist.cancelObserved
  /\ hist.cancelMid
  /\ pc = "loop_top"
  /\ idx <= total_nodes

\* positions after which tracking, solve or camera creation has been triggered
TrackingOps ==
  { "trackFeatures.execute", "solveCamera.execute", "doUpdateSolve.execute",
    "_create_camera" }

C10_AllCallsOnMainThread ==
  \A c \in hostCalls : c.thread = "main"


\* C11 (as claimed): every host operation the worker dispatches is a blocking
\* round trip, so at most one call handed over by the worker is waiting for
\* the main thread at any time.
C11_BlockingRoundTrip ==
  Len(mainQueue) <= 1

\* C12 (as claimed): no host operation is triggered on a node while an
\* operation dispatched for an earlier node of the batch has not been executed.
C12_NodesStrictlyInSequence ==
  \A c \in QueuedCalls : \A j \in touched : j <= c.node

\* the host operations of the body of the while loop, lines 370-392
IterationOps ==
  { "minLengthThreshold.setValue", "maxRMSEThreshold.setValue",
    "maxErrorThreshold.setValue", "deleteRejectedTracks.setValue",
    "deleteRejectedTracks.execute", "deleteInvalidTracks.setValue",
    "deleteInvalidTracks.execute", "trackStart/trackStop.value",
    "selectedFrames.setValueAt", "doUpdateSolve.execute" }

\* C14: with max_iter = 0 the refinement performs no iteration, whatever the
\* initial RMSE: no threshold is written, no filter operation and no
\* update-solve is dispatched or executed, and the RMSE of the final report is
\* the RMSE read at the start of the refinement.
C14_ZeroIterations ==
  params.max_iter = 0
     => /\ iteration = 0
        /\ pc \notin IterationPcs
        /\ \A k \in Knobs : hist.pushedIter[k] = 0
        /\ \A c \in hostCalls : c.op \notin IterationOps
        /\ \A c \in QueuedCalls : c.op \notin IterationOps
        /\ (pc = "check_camera" /\ progress.stage = "refine_end")
              => /\ progress.detail.iteration = 0
                 /\ progress.detail.final_rmse = current_rmse

C14_Witness ==
  /\ params.max_iter = 0
  /\ pc = "check_camera"
  /\ progress.stage = "refine_end"
  /\ progress.detail.final_rmse = 2
  /\ current_rmse >= params.controlError

\* the worker hands the rename of a camera to the main thread
RenameIssued ==
  /\ Len(mainQueue') > Len(mainQueue)
  /\ mainQueue'[Len(mainQueue')].op = "setName"

\* the set of cameras read after the creation equals the set read before it
NoNewCamera ==
  /\ pc = "cameras_after"
  /\ pc' # pc
  /\ reply.status = "ok"
  /\ reply.cams = cameras_before

\* C15 (as claimed): the camera renamed is one of (cameras after creation
\* minus cameras before creation) and the name asked for is camera_prefix
\* followed by the plate name; when the two sets are equal nothing is renamed
\* and the warning is logged.
C15_RenamedToPlateName ==
  [][ /\ RenameIssued =>
           /\ mainQueue'[Len(mainQueue')].val \in cameras \ cameras_before
           /\ mainQueue'[Len(mainQueue')].name = << params.camera_prefix, "plate" >>
      /\ NoNewCamera => /\ mainQueue' = mainQueue
                        /\ hist'.noCamera ]_vars

\* C15 (amended): the camera renamed is one of (cameras after creation minus
\* cameras before creation); the name asked for is camera_prefix followed by
\* the plate name, or by the name of the tracker node when the plate-name
\* query of the node raised; when the two sets are equal nothing is renamed,
\* the warning is logged, no signal is emitted and the worker goes on to the
\* next node.
C15_RenamesNewCamera ==
  [][ /\ RenameIssued =>
           /\ mainQueue'[Len(mainQueue')].val \in cameras \ cameras_before
           /\ mainQueue'[Len(mainQueue')].name
                 = << params.camera_prefix,
                      IF hist.plateFailed THEN "node_name" ELSE "plate" >>
      /\ NoNewCamera => /\ mainQueue' = mainQueue
                        /\ hist'.noCamera
                        /\ UNCHANGED signalVars
                        /\ pc' = "loop_top" ]_vars

C15_Witness ==
  /\ hist.noCamera
  /\ cameras # {}
  /\ \E c \in QueuedCalls :
        /\ c.op = "setName"
        /\ c.node = 2
        /\ c.name = << CameraPrefix, "node_name" >>

\* C16: the worker never writes to params, and every node of the batch
\* starts its refinement from the submitted minLen, maxTrackError and
\* maxError, whatever the refinement of the nodes before it did to its own
\* copies.
C16_ParamsImmutable ==
  [][ /\ params' = params
      /\ (pc = "initial_rmse" /\ pc' = "current_rmse")
            => /\ minLen' = params.minLen
               /\ maxTrackError' = params.maxTrackError
               /\ maxError' = params.maxError
               /\ iteration' = 0 ]_vars

C16_Witness ==
  /\ idx = 2
  /\ pc = "current_rmse"
  /\ minLen = params.minLen
  /\ maxTrackError = params.maxTrackError
  /\ [op |-> "doUpdateSolve.execute", thread |-> "main"] \in hostCalls


\* a worker whose terminal signal the widget has not handled yet
RunActive ==
  \E w \in DOMAIN workers :
     \/ workers[w].state = "running"
     \/ \E k \in 1..Len(signals) :
          signals[k].run = w /\ signals[k].kind \in {"complete", "error"}

\* C13: from a submit with at least one checked node until the completion or
\* error signal of the run has been handled, the submit control is disabled
\* and cancel is enabled; once the signal has been handled, whichever way the
\* run ended, submit is enabled and cancel is disabled.
C13_ControlsFollowRun ==
  /\ RunActive => ~widget.track_btn /\ widget.cancel_btn
  /\ ~RunActive => widget.track_btn /\ ~widget.cancel_btn

C13_Witness ==
  /\ workers # << >>
  /\ ~RunActive
  /\ widget.dialog = ProcessErrorTitle
  /\ widget.track_btn
  /\ ~widget.cancel_btn


\* a call of initialize() begins
CallBegins == startup.pc = "idle" /\ startup'.calls = startup.calls + 1

\* the call that begins returns at once: it prints the notice and runs neither
\* the discovery nor the menu setup
NoOpWithNotice ==
  /\ startup'.pc = "idle"
  /\ startup'.notice
  /\ startup'.discoveries = startup.discoveries
  /\ startup'.menu_setups = startup.menu_setups
  /\ UNCHANGED << initialized, registered_tools, menu_entries >>

Registered == { registered_tools[k] : k \in 1..Len(registered_tools) }

\* no tool is in the registry twice and no command is in the menu twice
NoDuplicates ==
  /\ \A j, k \in 1..Len(registered_tools) :
       registered_tools[j] = registered_tools[k] => j = k
  /\ \A j, k \in 1..Len(menu_entries) :
       menu_entries[j] = menu_entries[k] => j = k

\* C17 (as claimed): once a call of initialize() has been made, every later
\* call is a no-op that only prints the notice.
C17_LaterCallIsNoOp ==
  [][ (CallBegins /\ startup.calls >= 1) => NoOpWithNotice ]_vars

\* C17 (amended): once a call of initialize() has run to its end, every later
\* call is a no-op that only prints the notice: no discovery, no menu setup.
\* A call that an exception ended before line 41 leaves the flag unset and
\* the next call runs the sequence again.  The flag is set exactly when a
\* call has run to its end, and in all cases no tool is registered twice and
\* no menu entry is added twice.
C17_CompletedCallMakesNoOp ==
  /\ [](NoDuplicates /\ (initialized <=> startup.completed >= 1))
  /\ [][ /\ (CallBegins /\ initialized) => NoOpWithNotice
         /\ (CallBegins /\ ~initialized) => startup'.pc = "validate" ]_vars

C17_Witness ==
  /\ startup.calls = 3
  /\ startup.completed = 1
  /\ startup.discoveries = 1
  /\ startup.notice
  /\ startup.pc = "idle"
  /\ Len(registered_tools) = 2

\* the modules whose import and register() succeed
Discoverable == { m \in DOMAIN tool_modules : tool_modules[m] = "registers" }

\* the for loop of discover_and_register_tools has visited every module
DiscoveryDone == startup.pc = "menus" \/ initialized

\* C18: a module that fails to import, has no register() or whose register()
\* raises is reported and is not added to the registry; once the loop has
\* visited the modules, in whatever order, the registry holds every other
\* module exactly once; and the call of initialize() in which a module
\* failed still runs to its end.
C18_FailedToolsSkipped ==
  /\ Registered \subseteq Discoverable
  /\ startup.errors \subseteq (DOMAIN tool_modules) \ Discoverable
  /\ DiscoveryDone =>
       /\ Registered = Discoverable
       /\ Len(registered_tools) = Cardinality(Discoverable)
       /\ startup.errors = (DOMAIN tool_modules) \ Discoverable
  /\ (startup.pc = "idle" /\ startup.errors # {}) => initialized

C18_Witness ==
  /\ initialized
  /\ tool_modules = << "import_fails", "registers" >>
  /\ startup.errors = {1}
  /\ registered_tools = << 2 >>


\* the host the last call of getPySideVersion was about, and whether that
\* host is there and reports a version that can be read
AskedHost == result.name
VersionRead ==
  CASE AskedHost = "nuke" ->
         "nuke" \in environment.modules
           /\ (environment.nuke.has_major \/ environment.nuke.readable)
    [] AskedHost = "maya" ->
         "maya" \in environment.modules /\ environment.maya.readable
    [] AskedHost = "houdini" ->
         "hou" \in environment.modules /\ environment.hou.readable
    [] OTHER -> TRUE

C20_Maya2025IsPySide2 ==
  ( /\ result.call = "getPySideVersion"
    /\ AskedHost = "maya"
    /\ VersionRead
    /\ environment.maya.major <= 2025 )
     => result.status = "returned" /\ result.value = 2


C22_FirstMatchWins ==
  result.call = "getDcc"
     => /\ "nuke" \in environment.modules => result.name = "nuke"
        /\ ("maya" \in environment.modules
              /\ "nuke" \notin environment.modules) => result.name = "maya"
        /\ ("hou" \in environment.modules
              /\ environment.modules \cap {"nuke", "maya"} = {})
             => result.name = "houdini"
        /\ environment.modules = {"bpy"} => result.name = "blender"
        /\ result.name = "None" <=> environment.modules = {}

C22_Witness ==
  /\ result.call = "getDcc"
  /\ environment.modules = {"nuke", "maya", "bpy"}
  /\ result.name = "nuke"


\* C23: with link_output true, every lens and transform knob of the new
\* camera shows in every view what the solver holds now, whatever has changed
\* since; with link_output false, it shows in every view what the solver held
\* when the camera was created.
C23_LinkedOrBaked ==
  scene.made =>
    \A k \in CameraKnobs, v \in Views(scene.numviews) :
      KnobValue(k, v) = IF scene.link
                        THEN solver[SourceKnob(k)][v]
                        ELSE scene.solver_then[SourceKnob(k)][v]

C23_Witness ==
  /\ scene.made
  /\ ~scene.link
  /\ scene.numviews >= 2
  /\ solver["aperture.x"][2] # scene.solver_then["aperture.x"][2]
  /\ scene.solver_then["focalLength"][1] # SolvedValue
  /\ KnobValue("haperture", 2) = scene.solver_then["aperture.x"][2]


IterationOrder ==
  << "minLengthThreshold.setValue", "maxRMSEThreshold.setValue",
     "maxErrorThreshold.setValue",
     "deleteRejectedTracks.setValue", "deleteRejectedTracks.execute",
     "deleteInvalidTracks.setValue", "deleteInvalidTracks.execute",
     "trackStart/trackStop.value", "selectedFrames.setValueAt",
     "doUpdateSolve.execute", "solveRMSE.value" >>

\* the main thread executes, in this step, the n-th operation of an iteration
\* of the node the worker is at
Executes(n) ==
  /\ mainQueue # << >>
  /\ mainQueue' = Tail(mainQueue)
  /\ Head(mainQueue).node = idx
  /\ Head(mainQueue).op = IterationOrder[n]
  /\ IterationOrder[n] = "solveRMSE.value" => pc = "new_rmse"

\* C27: the main thread executes the host operations of a refinement
\* iteration in the order thresholds, auto-confirm value and execution of
\* delete-rejected-tracks, auto-confirm value and execution of
\* delete-invalid-tracks, reference frames, update-solve, read of the new
\* RMSE: each of them right after the one before it in that order.
C27_IterationOrder ==
  [][\A n \in 2..Len(IterationOrder) :
       Executes(n) => hist.lastRun = IterationOrder[n - 1]]_vars

C27_Witness ==
  /\ pc = "new_rmse"
  /\ iteration = 1
  /\ reply.status = "ok"
  /\ hist.lastRun = "solveRMSE.value"


\* the calls that create or rename a camera
CameraOps == {"_create_camera", "setName"}

\* the worker hands a camera call to the main thread
IssuesCameraOp ==
  /\ Len(mainQueue') > Len(mainQueue)
  /\ mainQueue'[Len(mainQueue')].op \in CameraOps

\* C28: from the step in which a cancellation check sees the flag, the worker
\* hands over no call that creates or renames a camera; and at that step no
\* camera has been created or renamed for the node it is at, and none is
\* waiting to be.
C28_NoCameraAfterObservedCancel ==
  [][ /\ hist.cancelObserved => ~IssuesCameraOp
      /\ (hist'.cancelObserved /\ ~hist.cancelObserved)
           => /\ hist.lastRun \notin CameraOps
              /\ \A c \in QueuedCalls : c.op \in CameraOps => c.node < idx ]_vars

C28_Witness ==
  /\ hist.cancelObserved
  /\ hist.cancelAt = 2
  /\ hist.cancelMid
  /\ idx = 3
  /\ cameras # {}
  /\ pc = "done"


\* the step that completes a refinement iteration (line 418)
IterationCompletes == iteration' = iteration + 1

\* a progress signal of an iteration is emitted
IterationSignal == progress' # progress /\ progress'.stage = "iter"

\* what the signal of a completing iteration carries in any case: the 1-based
\* index and the RMSE before and after the iteration
CarriesIndexAndRmse ==
  /\ progress'.stage = "iter"
  /\ progress'.node = idx
  /\ progress'.detail.iteration = iteration'
  /\ progress'.detail.current_rmse = current_rmse
  /\ progress'.detail.new_rmse = current_rmse'
  /\ hist.lastRun = "solveRMSE.value"

\* a threshold named by the detail, with the value pushed to its knob in this
\* iteration
CarriesThreshold(field, knob) ==
  /\ field \in DOMAIN progress'.detail
  /\ progress'.detail[field] = hist.pushed[knob]
  /\ hist.pushedIter[knob] = iteration'

\* C29 (as claimed): each completed iteration emits one progress signal, after
\* the new RMSE has been read, which carries the 1-based iteration index, the
\* RMSE before and after, and minLen, maxTrackError and maxError as pushed in
\* that iteration.
C29_CarriesAllThresholds ==
  [][ /\ IterationSignal => IterationCompletes
      /\ IterationCompletes
           => /\ CarriesIndexAndRmse
              /\ CarriesThreshold("minLen", "minLengthThreshold")
              /\ CarriesThreshold("maxTrackError", "maxRMSEThreshold")
              /\ CarriesThreshold("maxError", "maxErrorThreshold") ]_vars

\* C29 (amended): each completed iteration emits one progress signal, after
\* the new RMSE has been read, which carries the 1-based iteration index, the
\* RMSE before and after, and minLen and maxError as pushed in that iteration;
\* it does not carry maxTrackError.
C29_CarriesTwoThresholds ==
  [][ /\ IterationSignal => IterationCompletes
      /\ IterationCompletes
           => /\ CarriesIndexAndRmse
              /\ CarriesThreshold("minLen", "minLengthThreshold")
              /\ CarriesThreshold("maxError", "maxErrorThreshold")
              /\ "maxTrackError" \notin DOMAIN progress'.detail ]_vars

C29_Witness ==
  /\ pc = "while"
  /\ iteration = 2
  /\ progress.stage = "iter"
  /\ progress.detail.iteration = 2
  /\ progress.detail.minLen = params.minLen + 1
  /\ progress.detail.maxError = params.maxError - Decay
  /\ progress.detail.new_rmse < progress.detail.current_rmse


\* the workers between their start and the handling of their terminal signal
ActiveRuns ==
  { w \in DOMAIN workers :
      \/ workers[w].state = "running"
      \/ \E k \in 1..Len(signals) :
           signals[k].run = w /\ signals[k].kind \in {"complete", "error"} }

\* C25: at most one worker is between its start and the handling of its
\* terminal signal; while there is one, no worker is created and _worker is
\* not assigned.
C25_OneRunAtATime ==
  /\ [](Cardinality(ActiveRuns) <= 1)
  /\ [][ActiveRuns # {} => /\ Len(workers') = Len(workers)
                            /\ worker_ref' = worker_ref]_vars

C25_Witness ==
  /\ Len(workers) = 2
  /\ ActiveRuns = {2}
  /\ worker_ref = 2
  /\ workers[1].cancelled
  /\ widget.is_processing


\* C26: when the worker thread is scheduled and the main thread answers every
\* call, a run emits its terminal signal, whatever the batch, max_iter and
\* the RMSE values the host reports, and from some point on the signal has
\* been emitted and the Track button is enabled again.
C26_RunEndsAndPanelRecovers ==
  <>[](terminal # {} /\ widget.track_btn /\ ~widget.is_processing)

C26_Witness ==
  /\ pc = "done"
  /\ widget.track_btn
  /\ ~widget.is_processing
  /\ progress.stage = "refine_end"
  /\ progress.detail.iteration = 2
  /\ progress.detail.final_rmse >= params.controlError


\* progress_update is emitted in this step
Emits == meter'.at \notin {"for", "done"}

\* C30 (as claimed): within a run, no progress_update carries a percentage
\* below that of the one before it, and none carries a percentage outside of
\* 0 to 100.
C30_NondecreasingWithin0To100 ==
  /\ [](Le(Zero, meter.percentage) /\ Le(meter.percentage, Hundred))
  /\ [][Emits => Le(meter.percentage, meter'.percentage)]_vars

\* the worker the cancel handler reaches: _worker, if it is running
Cancellable ==
  IF worker_ref # 0 /\ workers[worker_ref].state = "running"
  THEN {worker_ref} ELSE {}

\* C31: a click on Cancel changes no worker but the running one _worker
\* refers to, and nothing when there is none; a worker's cancelled flag, once
\* set, stays set; a worker created by a later click on Track starts with
\* cancelled = FALSE, and earlier workers keep their flags.
C31_CancelStaysWithItsRun ==
  /\ [][OnCancelClicked =>
          /\ Len(workers') = Len(workers)
          /\ \A w \in DOMAIN workers :
               /\ w \notin Cancellable => workers'[w] = workers[w]
               /\ w \in Cancellable => workers'[w].cancelled]_vars
  /\ [][\A w \in DOMAIN workers :
          workers[w].cancelled => workers'[w].cancelled]_vars
  /\ [][Len(workers') > Len(workers) =>
          /\ Len(workers') = Len(workers) + 1
          /\ ~workers'[Len(workers')].cancelled
          /\ workers'[Len(workers')].state = "running"
          /\ \A w \in DOMAIN workers : workers'[w] = workers[w]]_vars

\* the first run was cancelled; Cancel was clicked again after the second
\* worker had returned, and left its flag alone
C31_Witness ==
  /\ Len(workers) = 2
  /\ workers[1].cancelled
  /\ workers[2].state = "finished"
  /\ ~workers[2].cancelled
  /\ widget.status_label = "Cancelling..."
  /\ widget.is_processing

\* no row of the table is checked
NothingChecked == \A row \in DOMAIN node_table : ~node_table[row]

\* C32: a click on Track with no row checked shows the warning and changes
\* nothing else: no worker is created, _worker is not assigned, no signal is
\* queued, and is_processing, both buttons, the progress bar and the status
\* line keep their values.
C32_EmptySubmitRejected ==
  [][OnTrackClicked /\ NothingChecked =>
       /\ widget' = [widget EXCEPT !.dialog = "No Nodes Selected"]
       /\ workers' = workers
       /\ worker_ref' = worker_ref
       /\ signals' = signals
       /\ node_table' = node_table]_vars

\* a run ended with an error box; a later click on Track with two unchecked
\* rows replaced the box by the warning
C32_Witness ==
  /\ Len(node_table) = 2
  /\ NothingChecked
  /\ Len(workers) = 1
  /\ workers[1].state = "finished"
  /\ ~workers[1].cancelled
  /\ signals = << >>
  /\ widget.status_label = "Tracking failed or cancelled"
  /\ widget.dialog = "No Nodes Selected"
  /\ widget.track_btn
  /\ ~widget.is_processing

=============================================================================
